---- MODULE Spec2Model ----
(***************************************************************************)
(* nsemine_lite.py: the file-based cookie store (save_cookie, load_cookie),*)
(* the session bootstrap (_refresh_cookie) and the retrying fetchers       *)
(* (_http_get, _http_post).                                                *)
(*                                                                         *)
(* Time is counted in whole hours.  A cookie dict is a function from a set *)
(* of cookie names to values; the value of a cookie handed out by the      *)
(* warm-up page is the hour at which the page issued it.                   *)
(*                                                                         *)
(* NormSpec: the candle tables of __fetch_historical_data and of           *)
(* stocks.fetch_historical_data (session filter, timestamp correction,     *)
(* rounding, deduplication).  A datetime is a day and the milliseconds     *)
(* into it.  DomSpec: the requests and returns of get_script_token,        *)
(* __fetch_historical_data and get_historical_data.  DecSpec: a call of    *)
(* decompress_data.  TokSpec: the row a symbol lookup picks.  ConcSpec:    *)
(* two fetch calls on one cookie file, step by step.  ScraperSpec: the     *)
(* retry loop of scraper.get_request.                                      *)
(***************************************************************************)
EXTENDS Integers, Sequences, FiniteSets, TLC

\* ---------------------------------------------------------------- bounds
\* last hour the clock reaches
MaxTime == 3
\* largest max_retries argument a caller passes
MaxRetriesArg == 3
\* most candle rows in the body of a chart response
MaxRows == 3
\* most rows in a search response
MaxResults == 3

\* ------------------------------------------------------- program constants
\* COOKIE_TTL = timedelta(hours=2)
COOKIE_TTL == 2
\* "max_retries: int = 2" of _http_get and _http_post
DEFAULT_MAX_RETRIES == 2

\* ------------------------------------------------------------ cookie dicts
EmptyDict == [n \in {} |-> 0]

\* the two cookies _refresh_cookie keeps (the site also sets others: bm_sv)
KeptNames == {"nsit", "nseappid"}

\* what one response of the warm-up page can set
SetCookieChoices == {{}, {"nsit", "nseappid"}, {"bm_sv"}, {"nsit", "bm_sv"}}

\* dict.update / RequestsCookieJar.update
Update(a, b) == [n \in (DOMAIN a) \cup (DOMAIN b) |-> IF n \in DOMAIN b THEN b[n] ELSE a[n]]

\* Python truthiness of a dict
Truthy(d) == DOMAIN d # {}

\* a is carried by b: every cookie of a is in b with the same value
SubDict(a, b) == /\ DOMAIN a \subseteq DOMAIN b
                 /\ \A n \in DOMAIN a : a[n] = b[n]

\* ------------------------------------------------------------- cache file
\* datetime.isoformat and datetime.fromisoformat
IsoFormat(t) == [tag |-> "iso", t |-> t]
NoTimestamp == [tag |-> "absent", t |-> 0]
JunkTimestamp == [tag |-> "junk", t |-> 0]
FromIsoFormat(s) == IF s.tag = "iso" THEN [exc |-> FALSE, t |-> s.t] ELSE [exc |-> TRUE, t |-> 0]

MissingFile == [kind |-> "missing", cookie |-> EmptyDict, timestamp |-> NoTimestamp]
\* a file that is no JSON document (also: truncated, partly written)
GarbageFile == [kind |-> "garbage", cookie |-> EmptyDict, timestamp |-> NoTimestamp]
JsonFile(cookie_dict, ts) == [kind |-> "json", cookie |-> cookie_dict, timestamp |-> ts]

\* values returned by load_cookie: None, or the stored mapping
NoneValue == [isNone |-> TRUE, dict |-> EmptyDict]
Some(d) == [isNone |-> FALSE, dict |-> d]

\* load_cookie's try block without the expiry test
LoadCookieTry_NoExpiry(f, clock) ==
    IF f.kind = "missing" THEN [exc |-> FALSE, ret |-> NoneValue, file |-> f]
    ELSE IF f.kind = "garbage" THEN [exc |-> TRUE, ret |-> NoneValue, file |-> f]
    ELSE IF f.timestamp.tag = "absent" THEN [exc |-> FALSE, ret |-> NoneValue, file |-> f]
    ELSE IF FromIsoFormat(f.timestamp).exc THEN [exc |-> TRUE, ret |-> NoneValue, file |-> f]
    ELSE [exc |-> FALSE, ret |-> Some(f.cookie), file |-> f]

\* load_cookie's try block with "<= COOKIE_TTL" for "< COOKIE_TTL"
LoadCookieTry_Inclusive(f, clock) ==
    IF f.kind = "missing" THEN [exc |-> FALSE, ret |-> NoneValue, file |-> f]
    ELSE IF f.kind = "garbage" THEN [exc |-> TRUE, ret |-> NoneValue, file |-> f]
    ELSE IF f.timestamp.tag = "absent" THEN [exc |-> FALSE, ret |-> NoneValue, file |-> f]
    ELSE IF FromIsoFormat(f.timestamp).exc THEN [exc |-> TRUE, ret |-> NoneValue, file |-> f]
    ELSE IF clock - FromIsoFormat(f.timestamp).t <= COOKIE_TTL
         THEN [exc |-> FALSE, ret |-> Some(f.cookie), file |-> f]
    ELSE [exc |-> FALSE, ret |-> NoneValue, file |-> f]

\* body of load_cookie's try block: the file is opened for reading only
LoadCookieTry(f, clock) ==
    IF f.kind = "missing" THEN [exc |-> FALSE, ret |-> NoneValue, file |-> f]
    ELSE IF f.kind = "garbage" THEN [exc |-> TRUE, ret |-> NoneValue, file |-> f]
    ELSE IF f.timestamp.tag = "absent" THEN [exc |-> FALSE, ret |-> NoneValue, file |-> f]
    ELSE IF FromIsoFormat(f.timestamp).exc THEN [exc |-> TRUE, ret |-> NoneValue, file |-> f]
    ELSE IF clock - FromIsoFormat(f.timestamp).t < COOKIE_TTL
         THEN [exc |-> FALSE, ret |-> Some(f.cookie), file |-> f]
    ELSE [exc |-> FALSE, ret |-> NoneValue, file |-> f]

\* load_cookie without its except clause
load_cookie_NoExcept(f, clock) == LoadCookieTry(f, clock)

\* load_cookie: the try block, and "except Exception: return None"
load_cookie(f, clock) ==
    LET r == LoadCookieTry(f, clock)
    IN  IF r.exc THEN [exc |-> FALSE, ret |-> NoneValue, file |-> r.file] ELSE r

\* outcomes of writing the file
SaveOutcomes == {"ok", "open_fails", "write_fails"}

\* save_cookie without its except clause: a failed write raises
save_cookie_Raises(f, cookie_dict, clock, outcome) ==
    IF outcome = "ok" THEN [exc |-> FALSE, file |-> JsonFile(cookie_dict, IsoFormat(clock))]
    ELSE IF outcome = "open_fails" THEN [exc |-> TRUE, file |-> f]
    ELSE [exc |-> TRUE, file |-> GarbageFile]

\* save_cookie: the file it leaves; every exception is caught and printed
save_cookie(f, cookie_dict, clock, outcome) ==
    IF outcome = "ok" THEN [exc |-> FALSE, file |-> JsonFile(cookie_dict, IsoFormat(clock))]
    ELSE IF outcome = "open_fails" THEN [exc |-> FALSE, file |-> f]
    ELSE [exc |-> FALSE, file |-> GarbageFile]

\* ------------------------------------------------ the file, as characters
\* the file on disk: whether it exists, and what is in it
NoFile == [exists |-> FALSE, chars |-> <<>>]
FileOf(chars) == [exists |-> TRUE, chars |-> chars]

\* the pieces of a document: braces, a cookie and the timestamp
Brace(b) == [key |-> b, value |-> 0]
Member(k, v) == [key |-> k, value |-> v]

\* the order in which the cookies of a bundle are written
CookieOrder == <<"nsit", "nseappid", "bm_sv">>

\* json.dump(data, f) of data = {"cookie": cookie_dict, "timestamp": ...}:
\* the characters written
JsonDump(cookie_dict, clock) ==
    LET names == SelectSeq(CookieOrder, LAMBDA n : n \in DOMAIN cookie_dict)
    IN  <<Brace("{")>> \o [k \in 1..Len(names) |-> Member(names[k], cookie_dict[names[k]])]
            \o <<Member("timestamp", clock), Brace("}")>>

\* open(path, "w"): the file exists and is empty
Truncate(d) == FileOf(<<>>)

\* f.write at the start of the file, over what is there by now
Overlay(d, chars) == FileOf(chars \o SubSeq(d.chars, Len(chars) + 1, Len(d.chars)))

\* os.path.exists and json.load(f): a document is an opening brace, the
\* cookies, the timestamp and the closing brace, and nothing after it; all
\* else raises JSONDecodeError
JsonLoad(d) ==
    LET s == d.chars
        n == Len(s)
        document == /\ n >= 3
                    /\ s[1] = Brace("{") /\ s[n] = Brace("}")
                    /\ s[n - 1].key = "timestamp"
                    /\ \A k \in 2..(n - 2) : s[k].key \notin {"{", "}", "timestamp"}
                    /\ \A j, k \in 2..(n - 2) : s[j].key = s[k].key => j = k
    IN  IF ~d.exists THEN MissingFile
        ELSE IF ~document THEN GarbageFile
        ELSE JsonFile([name \in {s[k].key : k \in 2..(n - 2)} |->
                           (CHOOSE m \in {s[k] : k \in 2..(n - 2)} : m.key = name).value],
                      IsoFormat(s[n - 1].value))

\* load_cookie on the file without "except Exception: return None"
read_cookie_NoExcept(d, clock) == LoadCookieTry(JsonLoad(d), clock)

\* load_cookie on the file as it is on disk
read_cookie(d, clock) == load_cookie(JsonLoad(d), clock)

\* ------------------------------------------------------- dates and times
\* milliseconds in a day
Day == 24 * 3600 * 1000

\* pd.to_datetime("hh:mm:ss").time(), as milliseconds into the day
Clock(h, m, s) == ((h * 60 + m) * 60 + s) * 1000

\* pd.to_datetime(x, unit=unit): the date and the time of day of an epoch
\* count of seconds or milliseconds
ToDatetime(x, unit) ==
    LET ms == IF unit = "s" THEN x * 1000 ELSE x
    IN  [day |-> ms \div Day, tod |-> ms % Day]

\* the epoch milliseconds of a datetime, as the chart endpoint reports a time
Epoch(dt) == dt.day * Day + dt.tod

\* dt.second
SecondOf(dt) == (dt.tod \div 1000) % 60

\* dt.replace(second=0, microsecond=0)
ReplaceSecond(dt) == [dt EXCEPT !.tod = dt.tod - (dt.tod % 60000)]

\* dt + timedelta(minutes=m)
AddMinutes(dt, m) ==
    LET t == dt.tod + m * 60000
    IN  [day |-> dt.day + (t \div Day), tod |-> t % Day]

\* timedelta(minutes=minutes, seconds=seconds).seconds: a timedelta keeps
\* days apart, and .seconds is what is left of the day
TimedeltaSeconds(minutes, seconds) == (minutes * 60 + seconds) % (24 * 3600)

\* int(interval) of the interval strings used here
int(interval) ==
    CASE interval = "1" -> 1 [] interval = "3" -> 3 [] interval = "5" -> 5
      [] interval = "10" -> 10 [] interval = "15" -> 15 [] interval = "30" -> 30
      [] interval = "60" -> 60 [] interval = "1440" -> 1440 [] interval = "1441" -> 1441

\* ---------------------------------------------------------- candle tables
\* A DataFrame is its column names and its rows in order.  A row keeps its
\* index label, its value in the time column and, for the other columns,
\* the position id it had in the payload.
Canonical == <<"datetime", "open", "high", "low", "close", "volume">>

\* pd.DataFrame(rows) of a payload whose rows carry the given times
DataFrame(times) ==
    [i \in 1..Len(times) |-> [index |-> i - 1, datetime |-> times[i], id |-> i]]

\* df[mask]: the rows at which the boolean column mask is true, with their
\* index labels
RECURSIVE Keep(_, _)
Keep(rows, mask) ==
    IF rows = <<>> THEN <<>>
    ELSE (IF Head(mask) THEN <<Head(rows)>> ELSE <<>>) \o Keep(Tail(rows), Tail(mask))

\* df['datetime'] = values
SetColumn(rows, values) ==
    [i \in 1..Len(rows) |-> [rows[i] EXCEPT !.datetime = values[i]]]

\* reset_index(drop=True)
reset_index(rows) == [i \in 1..Len(rows) |-> [rows[i] EXCEPT !.index = i - 1]]

\* drop_duplicates(subset=['datetime']): the first row of each datetime
drop_duplicates(rows) ==
    LET keep == {i \in 1..Len(rows) :
                    \A j \in 1..(i - 1) : rows[j].datetime # rows[i].datetime}
        RECURSIVE Pick(_)
        Pick(i) == IF i > Len(rows) THEN <<>>
                   ELSE IF i \in keep THEN <<rows[i]>> \o Pick(i + 1)
                   ELSE Pick(i + 1)
    IN  Pick(1)

\* the filter with "time > 09:15:00"
remove_pre_and_post_market_prices_from_df_After(rows) ==
    LET time == [i \in 1..Len(rows) |-> ToDatetime(rows[i].datetime, "ms").tod]
    IN  Keep(rows, [i \in 1..Len(rows) |->
                        time[i] > Clock(9, 15, 0) /\ time[i] < Clock(15, 30, 0)])

\* nsemine_lite.remove_pre_and_post_market_prices_from_df(df) with unit 'ms':
\* the datetime column holds epoch milliseconds and is left as it is
remove_pre_and_post_market_prices_from_df(rows) ==
    LET time == [i \in 1..Len(rows) |-> ToDatetime(rows[i].datetime, "ms").tod]
    IN  Keep(rows, [i \in 1..Len(rows) |->
                        time[i] >= Clock(9, 15, 0) /\ time[i] < Clock(15, 30, 0)])

\* utils.remove_pre_and_post_market_prices_from_df(df) of a table whose
\* datetime column holds datetimes
utils_remove_pre_and_post_market_prices_from_df(rows) ==
    LET time == [i \in 1..Len(rows) |-> rows[i].datetime.tod]
    IN  Keep(rows, [i \in 1..Len(rows) |->
                        time[i] > Clock(9, 14, 0) /\ time[i] < Clock(15, 31, 0)])

\* rounding to the nearest minute
Round_Nearest(dt) ==
    IF SecondOf(dt) >= 30 THEN AddMinutes(ReplaceSecond(dt), 1) ELSE ReplaceSecond(dt)

\* the lambda applied to the datetime column
Round(dt) ==
    IF SecondOf(dt) > 1 THEN AddMinutes(ReplaceSecond(dt), 1) ELSE ReplaceSecond(dt)

\* "minutes = int(interval) if str(interval) == '1' else 5"
Minutes(interval) == IF interval = "1" THEN int(interval) ELSE 5

\* "time_offset_seconds = 0" of the except branch, for every interval
TimeOffsetSeconds_None(interval) == 0

\* time_offset_seconds
TimeOffsetSeconds(interval) == (Minutes(interval) - 1) * 60 + 59

\* process_historical_chart_response(df, interval): the table after the
\* session filter, after the subtraction of the offset and after the
\* rounding, which is the table returned
process_historical_chart_response(rows, interval) ==
    LET Convert(df) == SetColumn(df, [i \in 1..Len(df) |-> ToDatetime(df[i].datetime, "ms")])
        filtered == remove_pre_and_post_market_prices_from_df(rows)
        shifted == SetColumn(filtered, [i \in 1..Len(filtered) |->
                        filtered[i].datetime - TimeOffsetSeconds(interval) * 1000])
        corrected == Convert(shifted)
    IN  IF interval \in {"D", "W", "M"}
        THEN [filtered |-> rows, shifted |-> rows, corrected |-> Convert(rows),
              rounded |-> Convert(rows)]
        ELSE [filtered |-> filtered, shifted |-> shifted, corrected |-> corrected,
              rounded |-> SetColumn(corrected, [i \in 1..Len(corrected) |->
                              Round(corrected[i].datetime)])]

\* ------------------------------------------- the historical-data functions
\* The decoded body of the chart response is its kind and the times of its
\* candle rows: "no_response" (the fetcher returned None), "not_json",
\* "not_dict" (JSON that is no object), "no_data" (no 'data' key; for the
\* stocks module a status 's' that is not 'Ok') and "data".
BodyKinds == {"no_response", "not_json", "not_dict", "no_data", "data"}

StocksColumns == <<"t", "o", "h", "l", "c", "v">>

\* what a call returns: None, the raw body, or a table with the stages that
\* led to its rows; filter tells whether the call went through
\* remove_pre_and_post_market_prices_from_df
NoTable ==
    [ret |-> "None", columns |-> <<>>, filter |-> FALSE, filtered |-> <<>>,
     shifted |-> <<>>, corrected |-> <<>>, rounded |-> <<>>, rows |-> <<>>]

\* process_historical_chart_response and, on its result,
\* drop_duplicates(subset=['datetime']).reset_index(drop=True)
Normalize(rows, interval) ==
    LET p == process_historical_chart_response(rows, interval)
    IN  [ret |-> "table", columns |-> Canonical,
         filter |-> interval \notin {"D", "W", "M"}, filtered |-> p.filtered,
         shifted |-> p.shifted, corrected |-> p.corrected, rounded |-> p.rounded,
         rows |-> reset_index(drop_duplicates(p.rounded))]

\* nsemine_lite.__fetch_historical_data from "raw_data = resp.json()" on
fetch_historical_data(b, i, r) ==
    IF b.kind \in {"no_response", "not_json"} THEN NoTable
    ELSE IF r THEN [NoTable EXCEPT !.ret = "raw"]
    ELSE IF b.kind # "data" \/ b.times = <<>> THEN NoTable
    ELSE Normalize(DataFrame(b.times), i)

\* stocks.fetch_historical_data from "df = pd.DataFrame()" on; shifted holds
\* the epoch seconds after the subtraction, corrected their datetimes and
\* filtered the rows the session filter keeps, which are returned
stocks_fetch_historical_data(b, i, s, r) ==
    LET ok == b.kind = "data"
        data == DataFrame(b.times)
        df == IF ok THEN reset_index(Keep(data, [k \in 1..Len(data) |-> data[k].datetime >= s]))
              ELSE <<>>
        columns == IF ok THEN StocksColumns ELSE <<>>
        time_offset == TimedeltaSeconds(int(i) - 1, 59)
        shifted == SetColumn(df, [k \in 1..Len(df) |-> df[k].datetime - time_offset])
        corrected == SetColumn(shifted, [k \in 1..Len(df) |-> ToDatetime(shifted[k].datetime, "s")])
        kept == utils_remove_pre_and_post_market_prices_from_df(corrected)
    IN  IF b.kind \in {"not_json", "not_dict"} THEN NoTable
        ELSE IF r THEN [NoTable EXCEPT !.ret = "table", !.columns = columns, !.rows = df]
        ELSE IF Len(columns) # Len(Canonical) THEN NoTable
        ELSE [ret |-> "table", columns |-> Canonical, filter |-> TRUE, filtered |-> kept,
              shifted |-> shifted, corrected |-> corrected, rounded |-> corrected,
              rows |-> kept]

\* --------------------------------------- the table a caller passes in
\* A table a caller holds is its columns, the type of its datetime column
\* ("int64" for epoch counts, "datetime64") and its rows.
ChartColumns == <<"time", "open", "high", "low", "close", "volume">>

\* the table nsemine_lite.remove_pre_and_post_market_prices_from_df leaves
\* in the caller's hands: "df['temp_datetime'] = ..." and "df['time'] = ..."
\* add two columns to it
lite_filter_leaves(t) ==
    [t EXCEPT !.columns = t.columns \o <<"temp_datetime", "time">>]

\* the table utils.remove_pre_and_post_market_prices_from_df leaves in the
\* caller's hands: the datetime column converted when it held epoch
\* seconds, and a column "time" added
utils_filter_leaves(t) ==
    [columns |-> t.columns \o <<"time">>,
     dtype |-> "datetime64",
     rows |-> IF t.dtype = "datetime64" THEN t.rows
              ELSE SetColumn(t.rows, [i \in 1..Len(t.rows) |-> ToDatetime(t.rows[i].datetime, "s")])]

\* the table process_historical_chart_response leaves in the caller's
\* hands: it works on "df[[...]].copy()" and passes "df.copy()" on
process_leaves(t) == t

\* ------------------------------------------------- the rows of a lookup
\* A string is the sequence of its characters.
\* str.upper()
Upper(s) == [i \in 1..Len(s) |-> IF s[i] = "a" THEN "A" ELSE IF s[i] = "b" THEN "B" ELSE s[i]]

\* .str.split('-').str[0]: the part before the first '-'
RECURSIVE Cut(_)
Cut(s) == IF s = <<>> \/ Head(s) = "-" THEN <<>> ELSE <<Head(s)>> \o Cut(Tail(s))

\* .str.startswith(p)
StartsWith(s, p) == Len(p) <= Len(s) /\ SubSeq(s, 1, Len(p)) = p

\* the text p is somewhere in s
Contains_Literal(s, p) ==
    \E o \in 0..(Len(s) - Len(p)) : \A i \in 1..Len(p) : s[o + i] = p[i]

\* .str.contains(p): p is a regular expression (regex=True is the default),
\* in which '.' stands for any character
Contains(s, p) ==
    \E o \in 0..(Len(s) - Len(p)) : \A i \in 1..Len(p) : p[i] = "." \/ s[o + i] = p[i]

ScripTypes == {"Equity", "Index", "Futures", "Options"}

\* "if scrip_type: if scrip_type in {...}: df = df[df['type'] == scrip_type]";
\* "None" is the default None
TypeFilter(rows, scrip_type) ==
    IF scrip_type # "None" /\ scrip_type \in ScripTypes
    THEN Keep(rows, [i \in 1..Len(rows) |-> rows[i].type = scrip_type])
    ELSE rows

\* what a lookup returns: None, or symbol, scripcode and type of a row
NoToken == [ret |-> "None", symbol |-> <<>>, token |-> 0, type |-> "None"]

\* get_script_token from "df = pd.DataFrame(data['data'])" on, get_all=False:
\* x.iloc[0] of an empty selection raises, and None is returned
script_token(symbol, scrip_type, data) ==
    LET query == Upper(symbol)
        typed == TypeFilter(data, scrip_type)
        df == [i \in 1..Len(typed) |-> [typed[i] EXCEPT !.symbol = Cut(typed[i].symbol)]]
        exact == Keep(df, [i \in 1..Len(df) |-> df[i].symbol = query])
        starts == Keep(df, [i \in 1..Len(df) |-> StartsWith(df[i].symbol, query)])
        within == Keep(df, [i \in 1..Len(df) |-> Contains(df[i].description, query)])
        x == IF Len(exact) # 0 THEN exact ELSE IF Len(starts) # 0 THEN starts ELSE within
    IN  IF Len(x) = 0 THEN NoToken
        ELSE [ret |-> "tuple", symbol |-> x[1].symbol, token |-> x[1].scripcode,
              type |-> x[1].type]

\* get_historical_data: "search_result = get_script_token(symbol=symbol)",
\* "symbol, token, symbol_type = search_result" and the symbolType of the
\* payload of the chart request
historical_lookup(symbol, symbol_type, data) ==
    LET search_result == script_token(symbol, "None", data)
    IN  IF search_result.ret = "None"
        THEN [lookup |-> search_result, raised |-> TRUE, symbolType |-> "None"]
        ELSE [lookup |-> search_result, raised |-> FALSE, symbolType |-> search_result.type]

\* -------------------------------------------------------- decompress_data
\* The bytes passed in are what the function can see of them: whether they
\* are empty, whether they start with the gzip magic number 1f 8b, and what
\* each codec makes of them.  GzipFile.read gives the data or raises
\* BadGzipFile (an OSError: bad header, bad checksum), EOFError (the stream
\* ends before its end marker) or zlib.error (invalid deflate data); the
\* other codecs give the data or raise their own error.
GzipOutcomes == {"ok", "OSError", "EOFError", "zlib.error"}

CodecOutcomes == {"ok", "error"}

\* the codecs after gzip, in the order of the code
Ladder == <<"zlib", "deflate", "brotli", "zstd">>

\* what a call did: the codecs it tried, the exception it let through and
\* what it returned ("empty": b"", "input": the bytes passed in, a codec:
\* the output of that codec)
Did(tried, raised, ret) == [tried |-> tried, raised |-> raised, ret |-> ret]

\* the try blocks after the gzip block: each codec in turn, the first that
\* succeeds returns; its own error is caught and the next one tried
RECURSIVE Rest(_, _, _)
Rest(b, tried, k) ==
    IF k > Len(Ladder) THEN Did(tried, "none", "input")
    ELSE IF b[Ladder[k]] = "ok" THEN Did(Append(tried, Ladder[k]), "none", Ladder[k])
    ELSE Rest(b, Append(tried, Ladder[k]), k + 1)

\* decompress_data(compressed_data); "except OSError" of the gzip block
\* catches BadGzipFile only
decompress_data(b) ==
    IF b.empty THEN Did(<<>>, "none", "empty")
    ELSE IF ~b.magic THEN Rest(b, <<>>, 1)
    ELSE IF b.gzip = "ok" THEN Did(<<"gzip">>, "none", "gzip")
    ELSE IF b.gzip = "OSError" THEN Rest(b, <<"gzip">>, 1)
    ELSE Did(<<"gzip">>, b.gzip, "none")

\* ---------------------------------------------------------------- state
VARIABLES
    now,          \* the clock, in hours
    file,         \* nse_cookie.json
    pc,           \* position of the running _http_get / _http_post call
    method,       \* "GET" or "POST"
    max_retries,  \* argument of the call
    attempt,      \* loop variable
    jar,          \* session.cookies of the call's session
    result,       \* how the call ended: "pending", "response", "None", "raised"
    sent,         \* the cookies sent with each target request of the call
    refreshes,    \* the _refresh_cookie runs of the call
    sleeps        \* the delays slept in the call, each <<numerator, denominator>>

vars == <<now, file, pc, method, max_retries, attempt, jar, result, sent, refreshes, sleeps>>

\* a call of a historical-data function on the body of a chart response
VARIABLES
    entry,        \* "lite": nsemine_lite.__fetch_historical_data, "stocks": stocks.fetch_historical_data
    interval,     \* argument: "1", "3", ... minutes, or "D", "W", "M"
    raw,          \* argument
    start,        \* argument start_datetime, epoch seconds
    body,         \* the body of the chart response
    stage,        \* "input", "returned", "again", or the normalizer a caller called
    out,          \* what the call returned
    again,        \* what normalizing the rows of the returned table gives
    arg           \* the table a caller passed to a normalizer, as the call left it

nvars == <<entry, interval, raw, start, body, stage, out, again, arg>>

\* a call of a public function of nsemine_lite
VARIABLES
    api,          \* the function the caller entered
    fn,           \* the function that is running: get_script_token or __fetch_historical_data
    dpc,          \* its position: "idle", "get", "post", "json", "returned"
    reqs,         \* the target requests sent so far
    resp,         \* the response in hand: "Response" or "None"
    calls,        \* the calls of get_script_token and __fetch_historical_data that returned
    ret           \* how the call ended: "pending", "None", "raised", "tuple", "raw", "table"

dvars == <<api, fn, dpc, reqs, resp, calls, ret>>

\* the cookie file under two fetch calls at once, a call of decompress_data
\* and a symbol lookup
VARIABLES
    disk,         \* nse_cookie.json: whether it exists, and its characters
    procs,        \* the two calls: position, jar, bundle to save, loads, writes
    blob,         \* argument of decompress_data: what each codec makes of the bytes
    dec,          \* what decompress_data did: codecs tried, return or exception
    search,       \* a lookup: the query, the type asked for, the rows of the search response
    found,        \* what the lookup returned and the type sent with the chart request
    scrape        \* a call of scraper.get_request: position, requests, sleeps, return

xvars == <<disk, procs, blob, dec, search, found, scrape>>

\* the state of the historical-data functions and of the helpers
hvars == <<nvars, dvars, xvars>>

\* a table before any call
NoFrame == [columns |-> <<>>, dtype |-> "none", rows |-> <<>>]

\* the parts of the state a specification leaves alone
IdleStore == disk = NoFile /\ procs = <<>>
IdleCodec == blob = <<>> /\ dec = <<>>
IdleSearch == search = <<>> /\ found = <<>>
IdleScraper == scrape = <<>>
IdleHelpers == IdleStore /\ IdleCodec /\ IdleSearch /\ IdleScraper

\* ------------------------------------------------------- _refresh_cookie
\* _refresh_cookie that never uses the cache: always the warm-up request
UsesLoaded_Never(loaded) == FALSE

\* _refresh_cookie that also uses a loaded empty mapping: "if cookie is not None:"
UsesLoaded_NotNone(loaded) == ~loaded.isNone

\* "if cookie:" -- a loaded value is used when it is a non-empty mapping
UsesLoaded(loaded) == ~loaded.isNone /\ Truthy(loaded.dict)

\* the cookies the response of the warm-up page sets, issued at hour clock
Issued(names, clock) == [n \in names |-> clock]

\* filtered: nsit and nseappid when the jar has one of them, else the whole jar
Filtered(cookie_dict) ==
    LET kept == [n \in (DOMAIN cookie_dict) \cap KeptNames |-> cookie_dict[n]]
    IN  IF Truthy(kept) THEN kept ELSE cookie_dict

\* outcomes of the request to the warm-up page: it raises, or a response arrives
BootOutcomes == {"raises", "response"}

\* _refresh_cookie without its try block around the warm-up request
refresh_cookie_Fatal(f, j, clock, boot, names, save) ==
    LET load == load_cookie(f, clock)
        loaded == load.ret
        got == Update(j, Issued(names, clock))
        filtered == Filtered(got)
        saved == save_cookie(load.file, filtered, clock, save)
    IN  IF load.exc
        THEN [file |-> load.file, jar |-> j, ret |-> EmptyDict, load |-> load, harvest |-> EmptyDict,
              booted |-> FALSE, boot |-> "none", save |-> "not_called", exc |-> TRUE]
        ELSE IF UsesLoaded(loaded)
        THEN [file |-> load.file, jar |-> Update(j, loaded.dict), ret |-> loaded.dict, load |-> load,
              harvest |-> EmptyDict, booted |-> FALSE, boot |-> "none", save |-> "not_called", exc |-> FALSE]
        ELSE IF boot = "raises"
        THEN [file |-> load.file, jar |-> j, ret |-> EmptyDict, load |-> load, harvest |-> EmptyDict,
              booted |-> TRUE, boot |-> boot, save |-> "not_called", exc |-> TRUE]
        ELSE IF ~Truthy(got)
        THEN [file |-> load.file, jar |-> got, ret |-> EmptyDict, load |-> load, harvest |-> got,
              booted |-> TRUE, boot |-> boot, save |-> "not_called", exc |-> FALSE]
        ELSE IF saved.exc
        THEN [file |-> saved.file, jar |-> got, ret |-> EmptyDict, load |-> load, harvest |-> got,
              booted |-> TRUE, boot |-> boot, save |-> save, exc |-> FALSE]
        ELSE [file |-> saved.file, jar |-> Update(got, filtered), ret |-> filtered, load |-> load,
              harvest |-> got, booted |-> TRUE, boot |-> boot, save |-> save, exc |-> FALSE]

\* _refresh_cookie(session): the file and the jar it leaves, and what it returns.
\* boot, names and save are the outcome of the warm-up request, the cookies its
\* response sets and the outcome of writing the file.  An exception of the
\* try block (the warm-up request, save_cookie) is printed and {} returned.
refresh_cookie(f, j, clock, boot, names, save) ==
    LET load == load_cookie(f, clock)
        loaded == load.ret
        got == Update(j, Issued(names, clock))
        filtered == Filtered(got)
        saved == save_cookie(load.file, filtered, clock, save)
    IN  IF load.exc
        THEN [file |-> load.file, jar |-> j, ret |-> EmptyDict, load |-> load, harvest |-> EmptyDict,
              booted |-> FALSE, boot |-> "none", save |-> "not_called", exc |-> TRUE]
        ELSE IF UsesLoaded(loaded)
        THEN [file |-> load.file, jar |-> Update(j, loaded.dict), ret |-> loaded.dict, load |-> load,
              harvest |-> EmptyDict, booted |-> FALSE, boot |-> "none", save |-> "not_called", exc |-> FALSE]
        ELSE IF boot = "raises"
        THEN [file |-> load.file, jar |-> j, ret |-> EmptyDict, load |-> load, harvest |-> EmptyDict,
              booted |-> TRUE, boot |-> boot, save |-> "not_called", exc |-> FALSE]
        ELSE IF ~Truthy(got)
        THEN [file |-> load.file, jar |-> got, ret |-> EmptyDict, load |-> load, harvest |-> got,
              booted |-> TRUE, boot |-> boot, save |-> "not_called", exc |-> FALSE]
        ELSE IF saved.exc
        THEN [file |-> saved.file, jar |-> got, ret |-> EmptyDict, load |-> load, harvest |-> got,
              booted |-> TRUE, boot |-> boot, save |-> save, exc |-> FALSE]
        ELSE [file |-> saved.file, jar |-> Update(got, filtered), ret |-> filtered, load |-> load,
              harvest |-> got, booted |-> TRUE, boot |-> boot, save |-> save, exc |-> FALSE]

\* ------------------------------------------------- _http_get / _http_post
Methods == {"GET", "POST"}

\* outcomes of one target request; raise_for_status turns an error status
\* into an HTTPError, a RequestException like Timeout and ConnectionError
RequestOutcomes == {"ok", "http_error", "timeout", "connection_error"}

\* the loop with range(max_retries + 1)
InRange_OneMore(i, n) == i <= n

\* "for attempt in range(max_retries)"
InRange(i, n) == i < n

\* the except branch without "if attempt == 0:"
RefreshesAfter_Always(i) == TRUE

\* "if attempt == 0:" in the except branch
RefreshesAfter(i) == i = 0

\* a ** b for naturals
RECURSIVE Pow(_, _)
Pow(a, b) == IF b = 0 THEN 1 ELSE a * Pow(a, b - 1)

\* 1.5 ** attempt, as the fraction <<numerator, denominator>>
Backoff(i) == <<Pow(3, i), Pow(2, i)>>

\* the loop without "return resp": a success is followed by the next attempt
AfterRequest_NoReturn(outcome, i) ==
    IF outcome = "ok" THEN "sleep"
    ELSE IF i = 0 THEN "retry"
    ELSE "sleep"

\* where a request with the given outcome leaves the call
AfterRequest(outcome, i) ==
    IF outcome = "ok" THEN "done"
    ELSE IF RefreshesAfter(i) THEN "retry"
    ELSE "sleep"

\* ------------------------------------------- the public lookup functions
\* the outcomes of the target requests of one _http_get or _http_post call
\* with the default max_retries: the loop goes on after a failure and ends
\* with the first success or with the last attempt
HttpRuns ==
    {s \in UNION {[1..n -> RequestOutcomes] : n \in 1..DEFAULT_MAX_RETRIES} :
        /\ \A k \in 1..(Len(s) - 1) : AfterRequest(s[k], k - 1) # "done"
        /\ \/ AfterRequest(s[Len(s)], Len(s) - 1) = "done"
           \/ ~InRange(Len(s), DEFAULT_MAX_RETRIES)}

\* what the call returns: the response of its last request when that one
\* succeeded, else None
HttpResult(s) ==
    IF AfterRequest(s[Len(s)], Len(s) - 1) = "done" THEN "Response" ELSE "None"

\* the fallback without its condition: a POST after every GET
NeedsPost_Always(r) == TRUE

\* no fallback: the response of _http_get is used as it is
NeedsPost_Never(r) == FALSE

\* "if resp is None:" before the call of _http_post
NeedsPost(r) == r = "None"

\* the body of the search response: "no_response" (both fetchers returned
\* None), "not_json", "no_data" (no 'data' key), "no_match" (no row of the
\* search result matches the symbol) and "match"
SearchKinds == {"no_response", "not_json", "no_data", "no_match", "match"}

\* get_script_token from "data = resp.json()" on: the tuple of the first
\* matching row; every exception is caught and None returned
get_script_token(kind) == IF kind = "match" THEN "tuple" ELSE "None"

\* get_historical_data after the lookup: "if not search_result: raise ValueError"
AfterLookup(search_result) == IF search_result = "None" THEN "raise" ELSE "fetch"

\* the files the call can find: none, one that is no JSON, JSON without a
\* timestamp or with one that does not parse, and what save_cookie wrote at
\* hour 0 (also with no cookie in it)
InitFiles ==
    {MissingFile, GarbageFile}
    \cup {JsonFile(Issued(KeptNames, -1), ts) : ts \in {NoTimestamp, JunkTimestamp}}
    \cup {JsonFile(Issued(names, 0), IsoFormat(0)) : names \in {{}, KeptNames, {"bm_sv"}}}

Init ==
    /\ now = 0
    /\ file \in InitFiles
    /\ pc = "idle"
    /\ method = "GET"
    /\ max_retries = 0
    /\ attempt = 0
    /\ jar = EmptyDict
    /\ result = "pending"
    /\ sent = <<>>
    /\ refreshes = <<>>
    /\ sleeps = <<>>
    /\ entry = "lite"
    /\ interval = "1"
    /\ raw = FALSE
    /\ start = 0
    /\ body = [kind |-> "no_response", times |-> <<>>]
    /\ stage = "input"
    /\ out = [NoTable EXCEPT !.ret = "pending"]
    /\ again = [NoTable EXCEPT !.ret = "pending"]
    /\ arg = NoFrame
    /\ IdleHelpers
    /\ api = "none"
    /\ fn = "none"
    /\ dpc = "idle"
    /\ reqs = <<>>
    /\ resp = "None"
    /\ calls = <<>>
    /\ ret = "pending"

\* a caller enters _http_get or _http_post: a new session
Call(m, n) ==
    /\ pc \in {"idle", "done"}
    /\ pc' = "start"
    /\ method' = m
    /\ max_retries' = n
    /\ attempt' = 0
    /\ jar' = EmptyDict
    /\ result' = "pending"
    /\ sent' = <<>>
    /\ refreshes' = <<>>
    /\ sleeps' = <<>>
    /\ UNCHANGED <<now, file>>
    /\ UNCHANGED hvars

\* _refresh_cookie(session), before the loop and after a failed attempt; an
\* exception it lets through ends the call
RefreshCookie(boot, names, save) ==
    /\ pc \in {"start", "retry"}
    /\ LET r == refresh_cookie(file, jar, now, boot, names, save)
       IN  /\ file' = r.file
           /\ jar' = r.jar
           /\ refreshes' = Append(refreshes,
                  [at |-> pc, attempt |-> attempt, clock |-> now, before |-> file,
                   after |-> r.file, load |-> r.load, booted |-> r.booted,
                   boot |-> r.boot, harvest |-> r.harvest, save |-> r.save,
                   ret |-> r.ret, exc |-> r.exc])
           /\ pc' = IF r.exc THEN "done" ELSE IF pc = "start" THEN "loop" ELSE "sleep"
           /\ result' = IF r.exc THEN "raised" ELSE result
    /\ UNCHANGED <<now, method, max_retries, attempt, sent, sleeps>>
    /\ UNCHANGED hvars

\* session.get / session.post of the target, and raise_for_status
Request(outcome) ==
    /\ pc = "loop"
    /\ InRange(attempt, max_retries)
    /\ sent' = Append(sent, jar)
    /\ pc' = AfterRequest(outcome, attempt)
    /\ result' = IF outcome = "ok" THEN "response" ELSE result
    /\ UNCHANGED <<now, file, method, max_retries, attempt, jar, refreshes, sleeps>>
    /\ UNCHANGED hvars

\* time.sleep(1.5 ** attempt); continue
Sleep ==
    /\ pc = "sleep"
    /\ sleeps' = Append(sleeps, Backoff(attempt))
    /\ attempt' = attempt + 1
    /\ pc' = "loop"
    /\ UNCHANGED <<now, file, method, max_retries, jar, result, sent, refreshes>>
    /\ UNCHANGED hvars

\* the loop is over: return None
Exhausted ==
    /\ pc = "loop"
    /\ ~InRange(attempt, max_retries)
    /\ result' = "None"
    /\ pc' = "done"
    /\ UNCHANGED <<now, file, method, max_retries, attempt, jar, sent, refreshes, sleeps>>
    /\ UNCHANGED hvars

\* an hour passes
Tick ==
    /\ now < MaxTime
    /\ now' = now + 1
    /\ UNCHANGED <<file, pc, method, max_retries, attempt, jar, result, sent, refreshes, sleeps>>
    /\ UNCHANGED hvars

Next ==
    \/ \E m \in Methods, n \in 0..MaxRetriesArg : Call(m, n)
    \/ \E boot \in BootOutcomes, names \in SetCookieChoices, save \in SaveOutcomes :
           RefreshCookie(boot, names, save)
    \/ \E outcome \in RequestOutcomes : Request(outcome)
    \/ Sleep
    \/ Exhausted
    \/ Tick

Spec == Init /\ [][Next]_vars

\* ------------------------------------- calls of the historical-data functions
\* the times of day of the candles of a payload: before the session, its
\* first instant, 59 seconds later, one millisecond short of 09:16:01,
\* 09:16:01, inside the session, its end and after it
PayloadClocks ==
    {Clock(9, 10, 0), Clock(9, 15, 0), Clock(9, 15, 59), Clock(9, 16, 0) + 999,
     Clock(9, 16, 1), Clock(9, 20, 0), Clock(15, 30, 0), Clock(15, 35, 0)}

\* the epoch values of the candles, in the unit of the entry
PayloadTimes(e) ==
    IF e = "lite" THEN {2 * Day + c : c \in PayloadClocks}
    ELSE {(2 * Day + c) \div 1000 : c \in PayloadClocks}

\* intervals passed to nsemine_lite
LiteIntervals == {"1", "3", "5", "15", "D", "W", "M"}

\* intervals passed to the stocks module: the documented ones, a day, a day
\* and a minute
StocksIntervals == {"1", "3", "5", "10", "15", "30", "60", "1440", "1441"}

\* start_datetime: before every candle, or 09:15:30 of their day
Starts(e) == IF e = "lite" THEN {0} ELSE {0, (2 * Day + Clock(9, 15, 30)) \div 1000}

Bodies(e) ==
    {[kind |-> k, times |-> <<>>] : k \in BodyKinds}
    \cup {[kind |-> "data", times |-> t] :
            t \in UNION {[1..n -> PayloadTimes(e)] : n \in 1..MaxRows}}

Pending == [NoTable EXCEPT !.ret = "pending"]

NormInit ==
    /\ entry \in {"lite", "stocks"}
    /\ interval \in (IF entry = "lite" THEN LiteIntervals ELSE StocksIntervals)
    /\ raw \in BOOLEAN
    /\ start \in Starts(entry)
    /\ body \in Bodies(entry)
    /\ raw => Len(body.times) <= 1
    /\ stage = "input"
    /\ out = Pending
    /\ again = Pending
    /\ arg = NoFrame
    /\ IdleHelpers
    /\ api = "none"
    /\ fn = "none"
    /\ dpc = "idle"
    /\ reqs = <<>>
    /\ resp = "None"
    /\ calls = <<>>
    /\ ret = "pending"
    /\ now = 0
    /\ file = MissingFile
    /\ pc = "idle"
    /\ method = "GET"
    /\ max_retries = 0
    /\ attempt = 0
    /\ jar = EmptyDict
    /\ result = "pending"
    /\ sent = <<>>
    /\ refreshes = <<>>
    /\ sleeps = <<>>

\* nsemine_lite.__fetch_historical_data returns
FetchHistoricalData ==
    /\ stage = "input"
    /\ entry = "lite"
    /\ out' = fetch_historical_data(body, interval, raw)
    /\ stage' = "returned"
    /\ UNCHANGED <<entry, interval, raw, start, body, again, arg>>
    /\ UNCHANGED <<dvars, xvars>>
    /\ UNCHANGED vars

\* stocks.fetch_historical_data returns
StocksFetchHistoricalData ==
    /\ stage = "input"
    /\ entry = "stocks"
    /\ out' = stocks_fetch_historical_data(body, interval, start, raw)
    /\ stage' = "returned"
    /\ UNCHANGED <<entry, interval, raw, start, body, again, arg>>
    /\ UNCHANGED <<dvars, xvars>>
    /\ UNCHANGED vars

\* the rows of the table nsemine_lite returned, presented again as candle
\* rows with epoch milliseconds, are normalized once more
Renormalize ==
    /\ stage = "returned"
    /\ entry = "lite"
    /\ out.ret = "table"
    /\ LET time == [k \in 1..Len(out.rows) |-> Epoch(out.rows[k].datetime)]
       IN  again' = Normalize(SetColumn(out.rows, time), interval)
    /\ stage' = "again"
    /\ UNCHANGED <<entry, interval, raw, start, body, out, arg>>
    /\ UNCHANGED <<dvars, xvars>>
    /\ UNCHANGED vars

\* the table a caller builds from the candles of the body
Frame(columns, dtype) == [columns |-> columns, dtype |-> dtype, rows |-> DataFrame(body.times)]

\* a caller hands its table of epoch milliseconds to the filter of nsemine_lite
CallLiteFilter ==
    /\ stage = "input" /\ entry = "lite" /\ ~raw /\ body.kind = "data"
    /\ arg' = lite_filter_leaves(Frame(Canonical, "int64"))
    /\ out' = [NoTable EXCEPT !.ret = "table", !.columns = Canonical, !.filter = TRUE,
                              !.rows = remove_pre_and_post_market_prices_from_df(DataFrame(body.times))]
    /\ stage' = "lite_filter"
    /\ UNCHANGED <<entry, interval, raw, start, body, again>>
    /\ UNCHANGED <<dvars, xvars>>
    /\ UNCHANGED vars

\* a caller hands its table of epoch seconds to the filter of utils
CallUtilsFilter ==
    /\ stage = "input" /\ entry = "stocks" /\ ~raw /\ body.kind = "data"
    /\ LET t == Frame(Canonical, "int64")
       IN  /\ arg' = utils_filter_leaves(t)
           /\ out' = [NoTable EXCEPT !.ret = "table", !.columns = Canonical, !.filter = TRUE,
                          !.rows = utils_remove_pre_and_post_market_prices_from_df(
                                       utils_filter_leaves(t).rows)]
    /\ stage' = "utils_filter"
    /\ UNCHANGED <<entry, interval, raw, start, body, again>>
    /\ UNCHANGED <<dvars, xvars>>
    /\ UNCHANGED vars

\* a caller hands the table of a chart response to process_historical_chart_response
CallProcess ==
    /\ stage = "input" /\ entry = "lite" /\ ~raw /\ body.kind = "data"
    /\ arg' = process_leaves(Frame(ChartColumns, "int64"))
    /\ LET p == process_historical_chart_response(DataFrame(body.times), interval)
       IN  out' = [ret |-> "table", columns |-> Canonical,
                   filter |-> interval \notin {"D", "W", "M"}, filtered |-> p.filtered,
                   shifted |-> p.shifted, corrected |-> p.corrected, rounded |-> p.rounded,
                   rows |-> p.rounded]
    /\ stage' = "process"
    /\ UNCHANGED <<entry, interval, raw, start, body, again>>
    /\ UNCHANGED <<dvars, xvars>>
    /\ UNCHANGED vars

NormNext ==
    \/ FetchHistoricalData
    \/ StocksFetchHistoricalData
    \/ Renormalize
    \/ CallLiteFilter
    \/ CallUtilsFilter
    \/ CallProcess

NormSpec == NormInit /\ [][NormNext]_<<vars, hvars>>

\* ------------------------------------------------ calls of decompress_data
\* the parts of the state the helpers leave alone
IdleFetch ==
    /\ now = 0
    /\ file = MissingFile
    /\ pc = "idle"
    /\ method = "GET"
    /\ max_retries = 0
    /\ attempt = 0
    /\ jar = EmptyDict
    /\ result = "pending"
    /\ sent = <<>>
    /\ refreshes = <<>>
    /\ sleeps = <<>>

IdleNorm ==
    /\ entry = "lite"
    /\ interval = "1"
    /\ raw = FALSE
    /\ start = 0
    /\ body = [kind |-> "no_response", times |-> <<>>]
    /\ stage = "input"
    /\ out = [NoTable EXCEPT !.ret = "pending"]
    /\ again = [NoTable EXCEPT !.ret = "pending"]
    /\ arg = NoFrame

IdleDom ==
    /\ api = "none"
    /\ fn = "none"
    /\ dpc = "idle"
    /\ reqs = <<>>
    /\ resp = "None"
    /\ calls = <<>>
    /\ ret = "pending"

\* the byte strings passed in: b"", and every way the codecs can take bytes
\* that start with the gzip magic number or do not
Blobs ==
    {[empty |-> TRUE, magic |-> FALSE, gzip |-> "OSError", zlib |-> "error",
      deflate |-> "error", brotli |-> "error", zstd |-> "error"]}
    \cup {[empty |-> FALSE, magic |-> m, gzip |-> g, zlib |-> z, deflate |-> d,
            brotli |-> br, zstd |-> zs] :
            m \in BOOLEAN, g \in GzipOutcomes, z \in CodecOutcomes, d \in CodecOutcomes,
            br \in CodecOutcomes, zs \in CodecOutcomes}

DecInit ==
    /\ blob \in Blobs
    /\ blob.magic \/ blob.gzip = "OSError"
    /\ dec = Did(<<>>, "none", "pending")
    /\ IdleStore /\ IdleSearch /\ IdleScraper
    /\ IdleFetch /\ IdleNorm /\ IdleDom

\* decompress_data returns or raises
DecompressData ==
    /\ dec.ret = "pending"
    /\ dec' = decompress_data(blob)
    /\ UNCHANGED <<blob, disk, procs, search, found, scrape>>
    /\ UNCHANGED <<vars, nvars, dvars>>

DecNext == DecompressData

DecSpec == DecInit /\ [][DecNext]_<<vars, hvars>>

\* ------------------------------------------------------ calls of a lookup
\* rows of a search response: symbol, description and type.  For the query
\* "ab": an exact match, one after the cut at '-', one by prefix, one by
\* description.  For the query "A.B": a description with other text in the
\* place of the dot, and one with the dot.  A row that matches neither.
SearchRows ==
    {[symbol |-> <<"A", "B">>, description |-> <<"X">>, type |-> "Equity"],
     [symbol |-> <<"A", "B", "-", "X">>, description |-> <<"X">>, type |-> "Index"],
     [symbol |-> <<"A", "B", "X">>, description |-> <<"X">>, type |-> "Equity"],
     [symbol |-> <<"X">>, description |-> <<"X", "A", "B">>, type |-> "Index"],
     [symbol |-> <<"X">>, description |-> <<"A", "X", "B">>, type |-> "Equity"],
     [symbol |-> <<"X">>, description |-> <<"A", ".", "B">>, type |-> "Index"],
     [symbol |-> <<"X">>, description |-> <<"X">>, type |-> "Equity"]}

Queries == {<<"a", "b">>, <<"A", ".", "B">>}

\* the type a caller passes: none, two of the types, one that is no type
TypeArgs == {"None", "Equity", "Index", "Bond"}

\* the data of a search response: each row gets its position as scripcode
SearchData ==
    {[i \in 1..Len(s) |-> [symbol |-> s[i].symbol, description |-> s[i].description,
                            type |-> s[i].type, scripcode |-> i]] :
        s \in UNION {[1..n -> SearchRows] : n \in 0..MaxResults}}

NotFound == [lookup |-> NoToken, raised |-> FALSE, symbolType |-> "None"]

TokInit ==
    /\ search \in [api : {"get_script_token", "get_historical_data"}, symbol : Queries,
                    type : TypeArgs, data : SearchData]
    /\ found = <<>>
    /\ IdleStore /\ IdleCodec /\ IdleScraper
    /\ IdleFetch /\ IdleNorm /\ IdleDom

\* get_script_token(symbol, scrip_type=type) returns
LookupToken ==
    /\ found = <<>>
    /\ search.api = "get_script_token"
    /\ found' = [NotFound EXCEPT !.lookup = script_token(search.symbol, search.type, search.data)]
    /\ UNCHANGED <<search, disk, procs, blob, dec, scrape>>
    /\ UNCHANGED <<vars, nvars, dvars>>

\* get_historical_data(symbol, symbol_type=type) has built the payload of
\* its chart request, or has raised
LookupHistorical ==
    /\ found = <<>>
    /\ search.api = "get_historical_data"
    /\ found' = historical_lookup(search.symbol, search.type, search.data)
    /\ UNCHANGED <<search, disk, procs, blob, dec, scrape>>
    /\ UNCHANGED <<vars, nvars, dvars>>

TokNext ==
    \/ LookupToken
    \/ LookupHistorical

TokSpec == TokInit /\ [][TokNext]_<<vars, hvars>>

\* ------------------------------------------- two fetch calls on one file
\* the two calls
Callers == {1, 2}

\* a call refreshes at its start and after its first attempt failed
RefreshesPerCall == 2

\* the bundle of a file written before the calls
EarlierCookie == [n \in {"nsit"} |-> 0]

\* the file the calls find: none, a fresh bundle, a stale one
ConcFiles ==
    {NoFile, FileOf(JsonDump(EarlierCookie, 0)), FileOf(JsonDump(EarlierCookie, -COOKIE_TTL))}

ConcInit ==
    /\ disk \in ConcFiles
    /\ procs = [p \in Callers |-> [pc |-> "load", runs |-> 1, jar |-> EmptyDict,
                                    bundle |-> EmptyDict, loads |-> <<>>, wrote |-> <<>>]]
    /\ IdleCodec /\ IdleSearch /\ IdleScraper
    /\ IdleFetch /\ IdleNorm /\ IdleDom

\* "cookie = load_cookie()" and "if cookie: session.cookies.update(cookie); return cookie"
LoadCookie(p) ==
    /\ procs[p].pc = "load"
    /\ LET r == read_cookie(disk, now)
           seen == [seen |-> disk, ret |-> r.ret, exc |-> r.exc]
       IN  procs' = [procs EXCEPT
                ![p].loads = Append(@, seen),
                ![p].jar = IF ~r.exc /\ UsesLoaded(r.ret) THEN Update(@, r.ret.dict) ELSE @,
                ![p].pc = IF r.exc THEN "raised"
                          ELSE IF UsesLoaded(r.ret) THEN "attempt" ELSE "boot"]
    /\ UNCHANGED <<disk, blob, dec, search, found, scrape>>
    /\ UNCHANGED <<vars, nvars, dvars>>

\* session.get(first_boy) and "if cookie_dict:", up to the call of save_cookie
Bootstrap(p, boot, names) ==
    /\ procs[p].pc = "boot"
    /\ LET got == Update(procs[p].jar, [n \in names |-> p])
       IN  procs' = IF boot = "raises" THEN [procs EXCEPT ![p].pc = "attempt"]
                    ELSE IF ~Truthy(got) THEN [procs EXCEPT ![p].pc = "attempt"]
                    ELSE [procs EXCEPT ![p].jar = got, ![p].bundle = Filtered(got),
                                       ![p].pc = "open"]
    /\ UNCHANGED <<disk, blob, dec, search, found, scrape>>
    /\ UNCHANGED <<vars, nvars, dvars>>

\* save_cookie: open(path, "w"); when it fails the exception is printed
\* and _refresh_cookie goes on with session.cookies.update(filtered)
SaveOpen(p, outcome) ==
    /\ procs[p].pc = "open"
    /\ IF outcome = "ok"
       THEN /\ disk' = Truncate(disk)
            /\ procs' = [procs EXCEPT ![p].pc = "write"]
       ELSE /\ disk' = disk
            /\ procs' = [procs EXCEPT ![p].pc = "attempt",
                                      ![p].jar = Update(@, procs[p].bundle)]
    /\ UNCHANGED <<blob, dec, search, found, scrape>>
    /\ UNCHANGED <<vars, nvars, dvars>>

\* save_cookie: json.dump and the close of the file, then
\* session.cookies.update(filtered)
SaveWrite(p) ==
    /\ procs[p].pc = "write"
    /\ disk' = Overlay(disk, JsonDump(procs[p].bundle, now))
    /\ procs' = [procs EXCEPT ![p].pc = "attempt",
                              ![p].wrote = Append(@, procs[p].bundle),
                              ![p].jar = Update(@, procs[p].bundle)]
    /\ UNCHANGED <<blob, dec, search, found, scrape>>
    /\ UNCHANGED <<vars, nvars, dvars>>

\* the first attempt failed: "if attempt == 0: _refresh_cookie(session)"
RefreshAgain(p) ==
    /\ procs[p].pc = "attempt"
    /\ procs[p].runs < RefreshesPerCall
    /\ procs' = [procs EXCEPT ![p].pc = "load", ![p].runs = @ + 1]
    /\ UNCHANGED <<disk, blob, dec, search, found, scrape>>
    /\ UNCHANGED <<vars, nvars, dvars>>

ConcNext ==
    \/ \E p \in Callers : LoadCookie(p)
    \/ \E p \in Callers, boot \in BootOutcomes, names \in SetCookieChoices : Bootstrap(p, boot, names)
    \/ \E p \in Callers, outcome \in {"ok", "open_fails"} : SaveOpen(p, outcome)
    \/ \E p \in Callers : SaveWrite(p)
    \/ \E p \in Callers : RefreshAgain(p)

ConcSpec == ConcInit /\ [][ConcNext]_<<vars, hvars>>

\* --------------------------------------------------- scraper.get_request
\* "for retry_count in range(3)"
ATTEMPTS == 3

\* what one session.get of the target and raise_for_status end in: status
\* 200, another status that raise_for_status lets pass, the exceptions the
\* loop catches, and any other exception
AttemptOutcomes ==
    {"200", "other_status", "Timeout", "ConnectionError", "HTTPError", "RequestException",
     "Exception"}

\* the whole seconds of "sleep_time = 2**retry_count + time.time() % 1"
sleep_time(retry_count) == Pow(2, retry_count)

\* the loop without the test of the status code: any response that did not
\* raise is returned
Returns_Unraised(outcome) == outcome \in {"200", "other_status"}

\* "if response.status_code == 200: return response"
Returns(outcome) == outcome = "200"

ScraperInit ==
    /\ scrape \in [pc : {"start"}, initial_url : BOOLEAN, retry_count : {0}, sent : {<<>>},
                    sleeps : {<<>>}, ret : {"pending"}]
    /\ IdleStore /\ IdleCodec /\ IdleSearch
    /\ IdleFetch /\ IdleNorm /\ IdleDom

\* "if initial_url: session.get(url=initial_url, ...)"; an exception of it
\* is caught by the outer except, which returns None
Warmup(outcome) ==
    /\ scrape.pc = "start"
    /\ scrape.initial_url
    /\ scrape' = IF outcome = "raises" THEN [scrape EXCEPT !.pc = "done", !.ret = "None"]
                 ELSE [scrape EXCEPT !.pc = "attempt"]
    /\ UNCHANGED <<disk, procs, blob, dec, search, found>>
    /\ UNCHANGED <<vars, nvars, dvars>>

\* no initial_url: straight to the loop
NoWarmup ==
    /\ scrape.pc = "start"
    /\ ~scrape.initial_url
    /\ scrape' = [scrape EXCEPT !.pc = "attempt"]
    /\ UNCHANGED <<disk, procs, blob, dec, search, found>>
    /\ UNCHANGED <<vars, nvars, dvars>>

\* session.get of the target, raise_for_status and the test of the status
Attempt(outcome) ==
    /\ scrape.pc = "attempt"
    /\ scrape.retry_count < ATTEMPTS
    /\ scrape' = [scrape EXCEPT
            !.sent = Append(@, outcome),
            !.pc = IF Returns(outcome) \/ outcome = "Exception" THEN "done" ELSE "sleep",
            !.ret = IF Returns(outcome) THEN "Response"
                    ELSE IF outcome = "Exception" THEN "None" ELSE @]
    /\ UNCHANGED <<disk, procs, blob, dec, search, found>>
    /\ UNCHANGED <<vars, nvars, dvars>>

\* time.sleep(sleep_time), and the next round of the loop
SleepRetry ==
    /\ scrape.pc = "sleep"
    /\ scrape' = [scrape EXCEPT !.sleeps = Append(@, sleep_time(scrape.retry_count)),
                                !.retry_count = @ + 1, !.pc = "attempt"]
    /\ UNCHANGED <<disk, procs, blob, dec, search, found>>
    /\ UNCHANGED <<vars, nvars, dvars>>

\* the loop is over: "Request failed after multiple retries.", return None
GiveUp ==
    /\ scrape.pc = "attempt"
    /\ scrape.retry_count >= ATTEMPTS
    /\ scrape' = [scrape EXCEPT !.pc = "done", !.ret = "None"]
    /\ UNCHANGED <<disk, procs, blob, dec, search, found>>
    /\ UNCHANGED <<vars, nvars, dvars>>

ScraperNext ==
    \/ \E outcome \in {"ok", "raises"} : Warmup(outcome)
    \/ NoWarmup
    \/ \E outcome \in AttemptOutcomes : Attempt(outcome)
    \/ SleepRetry
    \/ GiveUp

ScraperSpec == ScraperInit /\ [][ScraperNext]_<<vars, hvars>>

\* ------------------------------------------ calls of the public functions
Apis == {"get_script_token", "get_historical_data", "fetch_historical_data"}

\* the bodies a chart response is taken from in these calls
ChartBodies ==
    {[kind |-> k, times |-> <<>>] : k \in BodyKinds}
    \cup {[kind |-> "data", times |-> <<2 * Day + Clock(9, 20, 0)>>]}

DomInit ==
    /\ api = "none"
    /\ fn = "none"
    /\ dpc = "idle"
    /\ reqs = <<>>
    /\ resp = "None"
    /\ calls = <<>>
    /\ ret = "pending"
    /\ entry = "lite"
    /\ interval = "1"
    /\ raw = FALSE
    /\ start = 0
    /\ body = [kind |-> "no_response", times |-> <<>>]
    /\ stage = "input"
    /\ out = Pending
    /\ again = Pending
    /\ arg = NoFrame
    /\ IdleHelpers
    /\ now = 0
    /\ file = MissingFile
    /\ pc = "idle"
    /\ method = "GET"
    /\ max_retries = 0
    /\ attempt = 0
    /\ jar = EmptyDict
    /\ result = "pending"
    /\ sent = <<>>
    /\ refreshes = <<>>
    /\ sleeps = <<>>

\* a caller enters a public function (or __fetch_historical_data itself)
CallApi(a, i, r) ==
    /\ dpc = "idle"
    /\ api' = a
    /\ fn' = IF a = "fetch_historical_data" THEN a ELSE "get_script_token"
    /\ interval' = i
    /\ raw' = r
    /\ dpc' = "get"
    /\ UNCHANGED <<reqs, resp, calls, ret>>
    /\ UNCHANGED <<entry, start, body, stage, out, again, arg>>
    /\ UNCHANGED <<vars, xvars>>

\* the requests of one fetcher call, appended to those of the call
Sent(m, run) == reqs \o [k \in 1..Len(run) |-> [method |-> m, fn |-> fn, outcome |-> run[k]]]

\* resp = _http_get(...), with the requests the fetcher sends
HttpGet(run) ==
    /\ dpc = "get"
    /\ reqs' = Sent("GET", run)
    /\ resp' = HttpResult(run)
    /\ dpc' = IF NeedsPost(HttpResult(run)) THEN "post" ELSE "json"
    /\ UNCHANGED <<api, fn, calls, ret>>
    /\ UNCHANGED nvars
    /\ UNCHANGED <<vars, xvars>>

\* resp = _http_post(...)
HttpPost(run) ==
    /\ dpc = "post"
    /\ reqs' = Sent("POST", run)
    /\ resp' = HttpResult(run)
    /\ dpc' = "json"
    /\ UNCHANGED <<api, fn, calls, ret>>
    /\ UNCHANGED nvars
    /\ UNCHANGED <<vars, xvars>>

\* the rest of get_script_token and, in get_historical_data, the check of
\* what it returned
GetScriptToken(kind) ==
    /\ dpc = "json"
    /\ fn = "get_script_token"
    /\ (kind = "no_response") <=> (resp = "None")
    /\ LET r == get_script_token(kind)
       IN  /\ calls' = Append(calls, [fn |-> fn, kind |-> kind, resp |-> resp, raw |-> FALSE,
                                      sent |-> Len(reqs), ret |-> r])
           /\ IF api = "get_script_token"
              THEN ret' = r /\ dpc' = "returned" /\ fn' = fn
              ELSE IF AfterLookup(r) = "raise"
              THEN ret' = "raised" /\ dpc' = "returned" /\ fn' = fn
              ELSE ret' = ret /\ dpc' = "get" /\ fn' = "fetch_historical_data"
    /\ UNCHANGED <<api, reqs, resp>>
    /\ UNCHANGED nvars
    /\ UNCHANGED <<vars, xvars>>

\* the rest of __fetch_historical_data; get_historical_data returns what it
\* returns
FetchBody(b) ==
    /\ dpc = "json"
    /\ fn = "fetch_historical_data"
    /\ (b.kind = "no_response") <=> (resp = "None")
    /\ body' = b
    /\ out' = fetch_historical_data(b, interval, raw)
    /\ calls' = Append(calls, [fn |-> fn, kind |-> b.kind, resp |-> resp, raw |-> raw,
                               sent |-> Len(reqs), ret |-> out'.ret])
    /\ ret' = out'.ret
    /\ dpc' = "returned"
    /\ UNCHANGED <<api, fn, reqs, resp>>
    /\ UNCHANGED <<entry, interval, raw, start, stage, again, arg>>
    /\ UNCHANGED <<vars, xvars>>

DomNext ==
    \/ \E a \in Apis, i \in {"1", "D"}, r \in BOOLEAN : CallApi(a, i, r)
    \/ \E run \in HttpRuns : HttpGet(run)
    \/ \E run \in HttpRuns : HttpPost(run)
    \/ \E kind \in SearchKinds : GetScriptToken(kind)
    \/ \E b \in ChartBodies : FetchBody(b)

DomSpec == DomInit /\ [][DomNext]_<<vars, hvars>>

\* ------------------------------------------------------------ properties
Runs == DOMAIN refreshes

\* the refresh runs of the call that requested the warm-up page
Boots == {i \in Runs : refreshes[i].booted}

\* a/b < c/d for fractions <<numerator, denominator>>
Less(a, b) == a[1] * b[2] < b[1] * a[2]

\* f holds a cookie mapping stamped with a time that parses
Stamped(f) == f.kind = "json" /\ f.timestamp.tag = "iso"

\* f holds a non-empty bundle younger than two hours at hour clock
FreshBundle(f, clock) ==
    /\ Stamped(f)
    /\ clock - f.timestamp.t < COOKIE_TTL
    /\ DOMAIN f.cookie # {}

\* C1: once attempt 0 has failed and its except branch has run, the warm-up
\* page has been requested in that branch, whatever the age of the cached
\* bundle; and no except branch of an attempt >= 1 runs _refresh_cookie.
C1_BootstrapAfterFirstFailure ==
    /\ (pc = "sleep" \/ attempt >= 1) =>
           \E i \in Runs : refreshes[i].at = "retry" /\ refreshes[i].booted
    /\ \A i \in Runs : refreshes[i].at = "retry" => refreshes[i].attempt = 0

\* C2: every load_cookie of a call, on a file stamped T read at hour c,
\* returned the stored mapping when T <= c < T + 2h and None when c >= T + 2h.
C2_FreshnessWindow ==
    \A i \in Runs :
        LET r == refreshes[i]
            T == r.before.timestamp.t
        IN  Stamped(r.before) =>
              /\ (T <= r.clock /\ r.clock < T + COOKIE_TTL) =>
                     (~r.load.exc /\ r.load.ret = Some(r.before.cookie))
              /\ r.clock >= T + COOKIE_TTL =>
                     (~r.load.exc /\ r.load.ret = NoneValue)

\* C2 witness: a load at exactly T + 2h of a file that holds a bundle
C2_Witness ==
    \E i \in Runs :
        /\ Stamped(refreshes[i].before)
        /\ DOMAIN refreshes[i].before.cookie # {}
        /\ refreshes[i].clock = refreshes[i].before.timestamp.t + COOKIE_TTL

\* C3: a call with max_retries = N >= 1 that ended without a response
\* returned None after exactly N target requests and N sleeps, the i-th sleep
\* (i = 0..N-1) lasting 1.5^i, each longer than the one before; for N = 3
\* the sleeps are 1, 3/2 and 9/4.
C3_RetryExhaustion ==
    (pc = "done" /\ result # "response" /\ max_retries >= 1) =>
        /\ result = "None"
        /\ Len(sent) = max_retries
        /\ Len(sleeps) = max_retries
        /\ \A i \in 1..Len(sleeps) : sleeps[i][1] * Pow(2, i - 1) = Pow(3, i - 1) * sleeps[i][2]
        /\ \A i \in 1..(Len(sleeps) - 1) : Less(sleeps[i], sleeps[i + 1])
        /\ max_retries = 3 => sleeps = << <<1, 1>>, <<3, 2>>, <<9, 4>> >>

\* C3 witness: three failed attempts, then None
C3_Witness == pc = "done" /\ result = "None" /\ max_retries = 3 /\ Len(sent) = 3

\* C4: the step in which an attempt succeeds ends the call with the
\* response, and from then on, until the caller makes another call, no target
\* request, no _refresh_cookie run and no sleep is added and the response is
\* not turned into None.
C4_SingleSuccessExit ==
    [][/\ (result # "response" /\ result' = "response") =>
              (pc' = "done" /\ Len(sent') = attempt' + 1 /\ Len(sleeps') = attempt')
       /\ result = "response" =>
              /\ pc = "done"
              /\ \/ pc' = "start"
                 \/ (sent' = sent /\ refreshes' = refreshes /\ sleeps' = sleeps
                     /\ result' = "response" /\ pc' = "done")]_vars

\* C4 witness: attempt 1 succeeded after attempt 0 failed
C4_Witness == pc = "done" /\ result = "response" /\ attempt = 1 /\ Len(sent) = 2

\* the first _refresh_cookie run of the call
First == refreshes[1]

\* the call is past its first _refresh_cookie
Attached == pc \in {"loop", "retry", "sleep"} \/ (pc = "done" /\ Len(refreshes) >= 1)

\* everything C5 says but the state the cache file is left in
C5_Common ==
    /\ pc \in {"loop", "retry", "sleep"} => Len(refreshes) >= 1
    /\ Len(sent) >= 1 => Len(refreshes) >= 1
    /\ \A i \in Runs : (refreshes[i].at = "start") = (i = 1)
    /\ Attached =>
          /\ ~First.load.exc
          /\ FreshBundle(First.before, First.clock) =>
                /\ ~First.booted
                /\ First.ret = First.before.cookie
                /\ First.after = First.before
                /\ Len(sent) >= 1 => SubDict(First.before.cookie, sent[1])
          /\ ~FreshBundle(First.before, First.clock) =>
                /\ First.booted
                /\ Truthy(First.harvest) =>
                      /\ First.save # "not_called"
                      /\ First.ret = Filtered(First.harvest)
                      /\ Truthy(First.ret)
                      /\ Len(sent) >= 1 => SubDict(First.ret, sent[1])

\* the first run left the cache file Fresh, holding the bundle it returned
SavedFresh ==
    /\ First.after = JsonFile(First.ret, IsoFormat(First.clock))
    /\ FreshBundle(First.after, First.clock)

\* C5 as stated: a call first runs load_cookie; a fresh bundle is attached
\* without a warm-up request; otherwise exactly one warm-up request is made
\* before the first target request and, when it yields cookies, the bundle is
\* in the cache file, which is Fresh, and is sent with the first target request.
C5_AttachAtStart_Stated ==
    /\ C5_Common
    /\ (Attached /\ First.booted /\ Truthy(First.harvest)) => SavedFresh

\* C5 amended: as stated, but save_cookie is called with the harvested bundle
\* and the cache file is Fresh with it when the write succeeds.
C5_AttachAtStart ==
    /\ C5_Common
    /\ (Attached /\ First.booted /\ Truthy(First.harvest) /\ First.save = "ok") => SavedFresh

\* C5 witness: a stale bundle at the start, a warm-up request that yields
\* cookies, a successful save and a target request
C5_Witness ==
    /\ Len(sent) >= 1
    /\ Stamped(First.before)
    /\ First.clock - First.before.timestamp.t >= COOKIE_TTL
    /\ First.booted
    /\ First.save = "ok"

\* the cookies of the n-th target request come from the runs before it
Origin(k, n) ==
    \E i \in Runs :
        /\ i <= k
        /\ \/ refreshes[i].boot = "response" /\ sent[k][n] = refreshes[i].clock
           \/ /\ ~refreshes[i].booted
              /\ FreshBundle(refreshes[i].before, refreshes[i].clock)
              /\ n \in DOMAIN refreshes[i].before.cookie
              /\ refreshes[i].before.cookie[n] = sent[k][n]

Progress ==
    \/ \E boot \in BootOutcomes, names \in SetCookieChoices, save \in SaveOutcomes :
           RefreshCookie(boot, names, save)
    \/ \E outcome \in RequestOutcomes : Request(outcome)
    \/ Sleep
    \/ Exhausted

\* steps the running call has left at most
Rank ==
    IF pc \in {"idle", "done"} THEN 0
    ELSE IF pc = "start" THEN 4 * max_retries + 4
    ELSE 4 * (max_retries - attempt) + (IF pc = "loop" THEN 3 ELSE IF pc = "retry" THEN 2 ELSE 1)

\* C7: a call makes at most max_retries target requests and at most two
\* warm-up requests, the first at its start and the second after attempt 0
\* failed; it ends with a response or None and lets no exception through; and
\* while it runs it can always take a step, each step leaving fewer to take.
C7_BoundedFetch ==
    /\ [](/\ Len(sent) <= max_retries
          /\ Cardinality(Boots) <= 2
          /\ \A i \in Boots : refreshes[i].at = "start" \/ (refreshes[i].at = "retry" /\ refreshes[i].attempt = 0)
          /\ \A i, j \in Boots : refreshes[i].at = refreshes[j].at => i = j
          /\ pc = "done" => result \in {"response", "None"}
          /\ pc \notin {"idle", "done"} => (result = "pending" /\ ENABLED Progress)
          /\ Rank >= 0)
    /\ [][(pc \notin {"idle", "done"} /\ <<pc, attempt>>' # <<pc, attempt>>) => Rank' < Rank]_vars

\* C7 witness: every request failed, the warm-up requests included
C7_Witness ==
    /\ pc = "done" /\ result = "None"
    /\ max_retries >= 2 /\ Len(sent) = max_retries
    /\ Cardinality(Boots) = 2
    /\ \A i \in Boots : refreshes[i].boot = "raises"

Unreadable(f) ==
    \/ f.kind \in {"missing", "garbage"}
    \/ f.kind = "json" /\ f.timestamp.tag \in {"absent", "junk"}

\* C9: every load_cookie on a file that does not exist, is no JSON, has no
\* timestamp or has one that does not parse returned None, raised nothing
\* and left the file as it was.
C9_LoadNeverRaises ==
    \A i \in Runs :
        Unreadable(refreshes[i].before) =>
            /\ ~refreshes[i].load.exc
            /\ refreshes[i].load.ret = NoneValue
            /\ refreshes[i].load.file = refreshes[i].before

\* C9 witness: a load of a file that is no JSON
C9_Witness == \E i \in Runs : refreshes[i].before.kind = "garbage"

\* C10: a run whose save_cookie failed let no exception through, returned
\* the non-empty bundle it had harvested and left a cache that load_cookie
\* still gives nothing usable from; every target request after the run, up
\* to the next warm-up response of the call, carries that bundle.
C10_BestEffortSave ==
    \A i \in Runs :
        LET r == refreshes[i]
        IN  r.save \in {"open_fails", "write_fails"} =>
              /\ ~r.exc
              /\ Truthy(r.harvest)
              /\ r.ret = Filtered(r.harvest)
              /\ Truthy(r.ret)
              /\ ~UsesLoaded(load_cookie(r.after, r.clock).ret)
              /\ ~FreshBundle(r.after, r.clock)
              /\ \A k \in DOMAIN sent :
                    (k >= i /\ \A j \in Runs : (j > i /\ j <= k) => refreshes[j].boot # "response")
                        => SubDict(r.ret, sent[k])

\* C10 witness: the write failed in the first run and a target request followed
C10_Witness ==
    /\ Len(sent) >= 1
    /\ First.save = "write_fails"

\* -------------------------------------- properties of the returned tables
\* a table came back from a call with raw=False
Returned(e) == entry = e /\ stage \in {"returned", "again"} /\ ~raw /\ out.ret = "table"

Intraday == interval \notin {"D", "W", "M"}

\* the time the payload gave for a row
PayloadTime(row) == body.times[row.id]

\* the times of day of the candles of the payload
PayloadClock == [i \in DOMAIN body.times |-> IF entry = "lite" THEN body.times[i] % Day
                                              ELSE (body.times[i] * 1000) % Day]

InSession(clock) == Clock(9, 15, 0) <= clock /\ clock < Clock(15, 30, 0)

Distinct(rows) ==
    \A k, l \in DOMAIN rows : k # l => rows[k].datetime # rows[l].datetime

Ascending(rows) ==
    \A k, l \in DOMAIN rows : k < l => Epoch(rows[k].datetime) <= Epoch(rows[l].datetime)

Dense(rows) == \A k \in DOMAIN rows : rows[k].index = k - 1

\* C13: process_historical_chart_response moves the time of every candle of
\* an n-minute interval back by (n - 1) * 60 + 59 seconds before it rounds
\* (179 seconds for n = 3), and moves no time of a D, W or M candle.
C13_OffsetPerInterval ==
    Returned("lite") =>
        \A k \in DOMAIN out.corrected :
            LET T == PayloadTime(out.corrected[k])
            IN  Epoch(out.corrected[k].datetime) =
                    IF Intraday THEN T - ((int(interval) - 1) * 60 + 59) * 1000 ELSE T

\* C14: stocks.fetch_historical_data with raw=False moves the time of every
\* candle of an n-minute interval back by (n - 1) * 60 + 59 seconds, for the
\* documented n and for any other positive n.
C14_StocksOffset ==
    Returned("stocks") =>
        \A k \in DOMAIN out.shifted :
            out.shifted[k].datetime
                = PayloadTime(out.shifted[k]) - ((int(interval) - 1) * 60 + 59)

\* C15: the rounded time of an intraday candle has no seconds and no part
\* of a second; it is the next minute when the seconds of the corrected time
\* are above 1, the minute of the corrected time when they are 0 or 1, and
\* it is less than 60 seconds away from the corrected time.
C15_MinuteRounding ==
    (Returned("lite") /\ Intraday) =>
        \A k \in DOMAIN out.rounded :
            LET c == Epoch(out.corrected[k].datetime)
                r == Epoch(out.rounded[k].datetime)
                s == (c \div 1000) % 60
                minute == c - (c % 60000)
            IN  /\ r % 60000 = 0
                /\ s > 1 => r = minute + 60000
                /\ s \in {0, 1} => r = minute
                /\ r - c < 60000
                /\ c - r < 60000

\* C15 witness: a candle rounded up and one cut by 1999 milliseconds
C15_Witness ==
    /\ Returned("lite") /\ Intraday
    /\ \E k \in DOMAIN out.rounded :
            Epoch(out.rounded[k].datetime) > Epoch(out.corrected[k].datetime)
    /\ \E k \in DOMAIN out.rounded :
            Epoch(out.corrected[k].datetime) - Epoch(out.rounded[k].datetime) = 1999

\* C16: the session filter of nsemine_lite keeps a row exactly when the time
\* of day t of its candle has 09:15:00 <= t < 15:30:00, changes no row and
\* keeps the order; of rows at 09:10, 09:20 and 15:35 only the second stays.
C16_SessionFilter ==
    (Returned("lite") /\ Intraday) =>
        /\ \A i \in DOMAIN body.times :
              (\E k \in DOMAIN out.filtered : out.filtered[k].id = i)
                  <=> InSession(PayloadClock[i])
        /\ \A k \in DOMAIN out.filtered :
              out.filtered[k].datetime = PayloadTime(out.filtered[k])
        /\ \A k, l \in DOMAIN out.filtered :
              k < l => out.filtered[k].id < out.filtered[l].id
        /\ PayloadClock = <<Clock(9, 10, 0), Clock(9, 20, 0), Clock(15, 35, 0)>>
              => (Len(out.filtered) = 1 /\ out.filtered[1].id = 2)

\* C16 witness: the rows at 09:10, 09:20 and 15:35 went through the filter
C16_Witness ==
    /\ Returned("lite") /\ Intraday
    /\ PayloadClock = <<Clock(9, 10, 0), Clock(9, 20, 0), Clock(15, 35, 0)>>

\* C17: every row of a returned intraday table has a time of day inside the
\* session window of the function that returned it: the filter acts on the
\* corrected (and, in nsemine_lite, rounded) times.
C17_ConfinedToSession ==
    \A e \in {"lite", "stocks"} :
        (Returned(e) /\ Intraday) =>
            \A k \in DOMAIN out.rows :
                LET t == out.rows[k].datetime.tod
                IN  IF e = "lite" THEN InSession(t)
                    ELSE Clock(9, 14, 0) < t /\ t < Clock(15, 31, 0)

\* C18: the table nsemine_lite returns has pairwise distinct times, holds
\* for each time the first row of the payload that got it, is sorted by
\* time and has the index 0..k-1.
C18_DedupSorted ==
    Returned("lite") =>
        /\ Distinct(out.rows)
        /\ \A k \in DOMAIN out.rows :
              \A j \in DOMAIN out.rounded :
                  out.rounded[j].datetime = out.rows[k].datetime
                      => out.rows[k].id <= out.rounded[j].id
        /\ Ascending(out.rows)
        /\ Dense(out.rows)

\* the returned table is a normalized one: distinct times, sorted, all in
\* the session
Normalized ==
    /\ Distinct(out.rows)
    /\ Ascending(out.rows)
    /\ \A k \in DOMAIN out.rows : InSession(out.rows[k].datetime.tod)

\* C19 as stated: normalizing a normalized intraday table again gives the
\* same table.
C19_Idempotent ==
    (stage = "again" /\ Intraday /\ Normalized) => again.rows = out.rows

\* C19: normalizing a normalized intraday table again drops no row in the
\* session filter and none as a duplicate, keeps order and index, and moves
\* every time back by the offset and one second more, a whole number of
\* minutes (one for interval 1, five for the others); rounding alone
\* changes no time of the table.
C19_Renormalized ==
    (stage = "again" /\ Intraday /\ Normalized) =>
        /\ Len(again.filtered) = Len(out.rows)
        /\ Len(again.rows) = Len(out.rows)
        /\ \A k \in DOMAIN out.rows :
              /\ again.rows[k].index = out.rows[k].index
              /\ again.rows[k].id = out.rows[k].id
              /\ Epoch(again.rows[k].datetime)
                    = Epoch(out.rows[k].datetime) - (IF interval = "1" THEN 1 ELSE 5) * 60000
              /\ Round(out.rows[k].datetime) = out.rows[k].datetime

\* C19 witness: a normalized table of two rows was normalized again
C19_Witness ==
    /\ stage = "again" /\ Intraday /\ Normalized
    /\ Len(out.rows) >= 2

\* C20: a decodable payload with no candle row gives an empty table with
\* the columns datetime, open, high, low, close, volume, not None.
C20_EmptyPayload ==
    (stage \in {"returned", "again"} /\ ~raw /\ body.kind = "data" /\ body.times = <<>>) =>
        /\ out.ret = "table"
        /\ out.rows = <<>>
        /\ out.columns = Canonical

\* ------------------------------------ properties of the public functions
\* the first call of the running public function: the lookup, in
\* get_historical_data
Lookup == calls[1]

\* the body the response brought is no JSON, or JSON without 'data'
Malformed(c) == c.resp = "Response" /\ c.kind \in {"not_json", "no_data"}

\* the request of the call that succeeded is the last one sent: no GET and
\* no POST after it
SuccessIsLast(c) ==
    \A k \in DOMAIN reqs :
        (reqs[k].fn = c.fn /\ reqs[k].outcome = "ok") => k = Len(reqs)

\* C11: when the lookup of the symbol fails, get_historical_data returns
\* None to its caller; it raises nothing.
C11_LookupFailureReturnsNone ==
    (api = "get_historical_data" /\ dpc = "returned" /\ Lookup.ret = "None")
        => ret = "None"

\* C12 as stated: when a target request succeeded and its body is no JSON or
\* has no 'data' key, get_script_token and __fetch_historical_data return
\* None and no request follows, neither a GET nor the POST fallback.
C12_MalformedNotRetried_Stated ==
    \A i \in DOMAIN calls :
        Malformed(calls[i]) =>
            /\ calls[i].ret = "None"
            /\ i = Len(calls)
            /\ dpc = "returned"
            /\ SuccessIsLast(calls[i])

\* C12: when a target request succeeded and its body is no JSON or has no
\* 'data' key, no request follows, neither a GET nor the POST fallback, and
\* the function returns None, except that __fetch_historical_data with
\* raw=True returns a decoded body as it is, with or without 'data'.
C12_MalformedNotRetried ==
    \A i \in DOMAIN calls :
        Malformed(calls[i]) =>
            /\ calls[i].ret =
                  IF calls[i].raw /\ calls[i].kind = "no_data" THEN "raw" ELSE "None"
            /\ i = Len(calls)
            /\ dpc = "returned"
            /\ SuccessIsLast(calls[i])

\* C12 witness: the second GET of __fetch_historical_data succeeded with a
\* body without 'data', after a lookup that succeeded
C12_Witness ==
    /\ Len(calls) = 2
    /\ Malformed(calls[2])
    /\ calls[2].kind = "no_data"
    /\ calls[2].ret = "None"
    /\ reqs[Len(reqs)].method = "GET"
    /\ reqs[Len(reqs) - 1].fn = "fetch_historical_data"

\* C21: when the fetcher returned None or the payload has a status other
\* than 'Ok', stocks.fetch_historical_data returns None, with raw=True and
\* with raw=False, and does not call the session filter.
C21_FailureStatus ==
    (entry = "stocks" /\ stage = "returned" /\ body.kind \in {"no_response", "no_data"})
        => (out.ret = "None" /\ ~out.filter)

\* the table the caller passed to the normalizer named by stage
Passed ==
    IF stage = "process" THEN Frame(ChartColumns, "int64") ELSE Frame(Canonical, "int64")

\* C22: a call of remove_pre_and_post_market_prices_from_df (of nsemine_lite
\* or of utils) or of process_historical_chart_response leaves the table it
\* was passed with the same columns, the same column types and the same
\* rows.
C22_NormalizerPurity ==
    stage \in {"lite_filter", "utils_filter", "process"} => arg = Passed

\* ------------------------------------------ properties of decompress_data
\* the call is over
Decompressed == dec.ret # "pending"

\* the codecs in the order of the ladder; gzip is one only for bytes with
\* the magic number
Order == (IF blob.magic THEN <<"gzip">> ELSE <<>>) \o <<"zlib", "deflate", "brotli", "zstd">>

\* the codecs of the ladder that can decode the bytes
Decoders == {k \in DOMAIN Order : blob[Order[k]] = "ok"}

\* C23: decompress_data raises nothing, whatever the bytes and whatever
\* each codec does with them (a truncated or corrupt gzip stream behind the
\* magic number too); when no codec decodes them it returns the bytes it
\* was given, and b"" for b"".
C23_NeverRaises ==
    Decompressed =>
        /\ dec.raised = "none"
        /\ (~blob.empty /\ Decoders = {}) => dec.ret = "input"
        /\ blob.empty => dec.ret = "empty"

\* C24: decompress_data tries gzip only behind the magic number, then zlib,
\* raw deflate, brotli and zstd; it returns the output of the first of
\* them that succeeds and tries none after it; a failed gzip attempt goes
\* on to the other codecs.
C24_LadderOrder ==
    (Decompressed /\ ~blob.empty) =>
        IF Decoders = {}
        THEN dec.tried = Order /\ dec.ret = "input"
        ELSE LET first == CHOOSE k \in Decoders : \A j \in Decoders : k <= j
             IN  dec.tried = SubSeq(Order, 1, first) /\ dec.ret = Order[first]

\* -------------------------------------------------- properties of a lookup
\* the rows the lookup is made over, each symbol cut at its first '-'
Considered ==
    LET typed == IF search.api = "get_script_token" /\ search.type \in ScripTypes
                 THEN SelectSeq(search.data, LAMBDA row : row.type = search.type)
                 ELSE search.data
    IN  [i \in 1..Len(typed) |-> [typed[i] EXCEPT !.symbol = Cut(typed[i].symbol)]]

\* the upper-cased query
Query == Upper(search.symbol)

\* the positions of the rows that match at each level
Exact == {i \in DOMAIN Considered : Considered[i].symbol = Query}
Prefixed == {i \in DOMAIN Considered : StartsWith(Considered[i].symbol, Query)}
Described == {i \in DOMAIN Considered : Contains_Literal(Considered[i].description, Query)}

Least(S) == CHOOSE i \in S : \A j \in S : i <= j

\* C25: get_script_token returns symbol, token and type of the first row
\* whose cut symbol equals the upper-cased query; if there is none, of the
\* first row whose symbol starts with the query; if there is none, of the
\* first row whose description contains the query; and None when no row
\* matches at any level.
C25_MatchPriority ==
    (found # <<>> /\ search.api = "get_script_token") =>
        LET level == IF Exact # {} THEN Exact ELSE IF Prefixed # {} THEN Prefixed ELSE Described
        IN  IF level = {} THEN found.lookup = NoToken
            ELSE LET row == Considered[Least(level)]
                 IN  found.lookup = [ret |-> "tuple", symbol |-> row.symbol,
                                     token |-> row.scripcode, type |-> row.type]

\* C26: when get_historical_data is passed a symbol_type that is one of
\* Equity, Index, Futures, Options, the row its lookup finds is of that
\* type and the chart request is sent with that type.
C26_HonoursSymbolType ==
    (found # <<>> /\ search.api = "get_historical_data" /\ search.type \in ScripTypes
        /\ ~found.raised) =>
        /\ found.lookup.type = search.type
        /\ found.symbolType = search.type

\* ------------------------------------------- a warm-up that gives nothing
\* the run requested the warm-up page and the request raised, or the
\* session had no cookie after it
FailedBoot(r) == r.booted /\ (r.boot = "raises" \/ ~Truthy(r.harvest))

\* the target request that follows run r: the first of the call, or the one
\* after the attempt that failed
NextAttempt(r) == IF r.at = "start" THEN 1 ELSE r.attempt + 2

\* what C27 says of every run but the cookies of the attempt that follows
C27_Common ==
    /\ \A i \in DOMAIN refreshes :
           LET r == refreshes[i]
           IN  FailedBoot(r) =>
                   /\ r.ret = EmptyDict
                   /\ r.save = "not_called"
                   /\ r.after = r.before
                   /\ ~r.exc
                   /\ (pc = "done" /\ NextAttempt(r) <= max_retries) =>
                          (Len(sent) >= NextAttempt(r) /\ result \in {"response", "None"})

Requests(f, m) == {k \in DOMAIN reqs : reqs[k].fn = f /\ reqs[k].method = m}

\* one of the requests succeeded
Succeeded(S) == \E k \in S : reqs[k].outcome = "ok"

\* function f has both fetchers behind it
PastFetchers(f) == (fn = f /\ dpc = "json") \/ \E i \in DOMAIN calls : calls[i].fn = f

\* C28: in get_script_token and in __fetch_historical_data a POST is sent
\* exactly when _http_get returned None, its max_retries requests all
\* failed; after a GET that succeeded no POST is sent; a call sends at most
\* 2 * max_retries target requests, the GETs before the POSTs; and when no
\* request of either method succeeded the function returns None.
C28_PostFallback ==
    \A f \in {"get_script_token", "fetch_historical_data"} :
        LET gets == Requests(f, "GET")
            posts == Requests(f, "POST")
        IN  /\ posts # {} =>
                   /\ ~Succeeded(gets)
                   /\ Cardinality(gets) = DEFAULT_MAX_RETRIES
                   /\ \A g \in gets, p \in posts : g < p
            /\ (PastFetchers(f) /\ ~Succeeded(gets)) => posts # {}
            /\ Succeeded(gets) => posts = {}
            /\ Cardinality(gets) + Cardinality(posts) <= 2 * DEFAULT_MAX_RETRIES
            /\ \A i \in DOMAIN calls :
                   (calls[i].fn = f /\ ~Succeeded(gets) /\ ~Succeeded(posts)) =>
                       (calls[i].ret = "None" /\ calls[i].resp = "None")

\* C28 witness: __fetch_historical_data returned None after 2 GETs and 2
\* POSTs that all failed
C28_Witness ==
    /\ api = "fetch_historical_data" /\ dpc = "returned" /\ ret = "None"
    /\ Len(reqs) = 2 * DEFAULT_MAX_RETRIES
    /\ Requests("fetch_historical_data", "GET") = 1..DEFAULT_MAX_RETRIES
    /\ Requests("fetch_historical_data", "POST") =
           (DEFAULT_MAX_RETRIES + 1)..(2 * DEFAULT_MAX_RETRIES)
    /\ ~Succeeded(DOMAIN reqs)

\* ------------------------------------------- the file under two callers
\* the loads of the two calls
Loads == UNION {{procs[p].loads[k] : k \in DOMAIN procs[p].loads} : p \in Callers}

\* the bundles save_cookie has written in full, before the calls or in them
Saved ==
    {EarlierCookie} \cup UNION {{procs[p].wrote[k] : k \in DOMAIN procs[p].wrote} : p \in Callers}

\* the file is a whole document of bundle w
WholeDocument(d, w) == d.exists /\ \E clock \in {0, -COOKIE_TTL} : d.chars = JsonDump(w, clock)

\* C29: in every interleaving of two fetch calls, each load_cookie raises
\* nothing and returns None or a bundle that a save_cookie wrote in full
\* and that is the whole of the file the load read; a load that read the
\* file truncated and not yet written returned None.
C29_ConcurrentLoads ==
    \A l \in Loads :
        /\ ~l.exc
        /\ \/ l.ret = NoneValue
           \/ \E w \in Saved : l.ret = Some(w) /\ WholeDocument(l.seen, w)
        /\ l.seen = FileOf(<<>>) => l.ret = NoneValue

\* C29 witness: one load read the truncated file, another a file in which a
\* shorter document lies over a longer one; both returned None
C29_Witness ==
    /\ \E l \in Loads : l.seen = FileOf(<<>>) /\ l.ret = NoneValue
    /\ \E l \in Loads, w \in Saved :
           LET doc == JsonDump(w, now)
           IN  /\ l.seen.exists
               /\ Len(l.seen.chars) > Len(doc)
               /\ SubSeq(l.seen.chars, 1, Len(doc)) = doc
               /\ l.ret = NoneValue

\* a load returned the bundle the other call saved
C29_LoadedOthers ==
    \E p, q \in Callers : \E l \in DOMAIN procs[p].loads : \E k \in DOMAIN procs[q].wrote :
        p # q /\ procs[p].loads[l].ret = Some(procs[q].wrote[k])

\* ------------------------------------------ the retry loop of the scraper
\* the outcomes the loop goes on after
Unsuccessful == {"other_status", "Timeout", "ConnectionError", "HTTPError", "RequestException"}

\* the attempts so far that were unsuccessful
Failures == {k \in DOMAIN scrape.sent : scrape.sent[k] \in Unsuccessful}

\* C30: scraper.get_request sends at most 3 target requests; it returns a
\* response only from an attempt with status 200, and that attempt is its
\* last; after a timeout, a connection error, an HTTP error or a status
\* other than 200 that does not raise it sleeps once and makes the next
\* attempt; after 3 such attempts it returns None; and it ends with a
\* response or None, never with an exception.
C30_ScraperRetryLoop ==
    /\ Len(scrape.sent) <= ATTEMPTS
    /\ scrape.ret = "Response" =>
           (scrape.sent # <<>> /\ scrape.sent[Len(scrape.sent)] = "200")
    /\ \A k \in DOMAIN scrape.sent :
           scrape.sent[k] = "200" =>
               (k = Len(scrape.sent) /\ scrape.pc = "done" /\ scrape.ret = "Response")
    /\ Len(scrape.sleeps) =
           Cardinality(Failures) - (IF scrape.pc = "sleep" THEN 1 ELSE 0)
    /\ \A k \in Failures :
           (scrape.pc = "done" /\ k < ATTEMPTS) => Len(scrape.sent) > k
    /\ (scrape.pc = "done" /\ Cardinality(Failures) = ATTEMPTS) => scrape.ret = "None"
    /\ scrape.pc = "done" <=> scrape.ret \in {"Response", "None"}
    /\ scrape.pc # "done" => scrape.ret = "pending"

\* C30 witness: three attempts, a status that is not 200, a timeout and an
\* HTTP error; a sleep after each, and None
C30_Witness ==
    /\ scrape.pc = "done" /\ scrape.ret = "None"
    /\ scrape.sent = <<"other_status", "Timeout", "HTTPError">>
    /\ Len(scrape.sleeps) = ATTEMPTS

====
